---- MODULE Spec2Model ----
(***************************************************************************)
(* Model of the video trimmer bot (src/main.py): the per-user dialogue     *)
(* (cancel_command, handle_video, handle_text), the time parser            *)
(* (parse_time), the pipeline run (trim_and_send_video) and the progress   *)
(* callback of its transfers (progress_callback).                          *)
(*                                                                         *)
(* Handlers are coroutines on one event loop.  A handler runs without      *)
(* interruption from one `await` to the next; at an `await` any other      *)
(* handler may run.  Each action below is one such uninterrupted stretch   *)
(* of code.  subprocess.run (line 354) is a synchronous call: while it     *)
(* waits for the transcoder, the event loop runs nothing else.             *)
(*                                                                         *)
(* A handler whose last await is its reply (cancel_command, handle_video,  *)
(* handle_text outside the accepted end time) is one action: the reply     *)
(* changes no state whether it returns or raises.  os.unlink and os.rmdir  *)
(* on a run's own files are taken to succeed.                              *)
(***************************************************************************)
EXTENDS Integers, Sequences, FiniteSets, TLC

(* ------------------------------ bounds ------------------------------- *)
\* users that send events
NumUsers == 2
\* handler tasks that can be inside trim_and_send_video at the same time
MaxRuns == 2
\* largest number literal a time text contains
MaxLit == 0
\* largest size in bytes of a file that is transferred
MaxTotal == 12

Users == 1..NumUsers
Slots == 1..MaxRuns
\* names tempfile.mkdtemp hands out: one per run in flight is enough
TempNames == 1..MaxRuns

(* ------------------------- program constants ------------------------- *)
MAX_FILE_SIZE_MB == 2000
MAX_FILE_SIZE_BYTES == MAX_FILE_SIZE_MB * 1024 * 1024
VIDEO_EXTS == {".mp4", ".avi", ".mov", ".mkv", ".webm", ".flv", ".wmv"}

(* ------------------------------ values ------------------------------- *)
\* Python floats: the finite values the inputs produce, and nan
Num(n) == [k |-> "num", v |-> n]
NaN == [k |-> "nan", v |-> 0]
\* a key that a VIDEO_DATA record does not have
Unset == [k |-> "unset", v |-> 0]
\* Python None
None == "None"

\* a <= b on floats (line 243): every comparison with nan is False
FloatLe(a, b) == a.k = "num" /\ b.k = "num" /\ a.v <= b.v
\* a + b and a * 60 on floats (line 278): nan if an operand is nan
FloatAdd(a, b) == IF a.k = "num" /\ b.k = "num" THEN Num(a.v + b.v) ELSE NaN
FloatMul60(a) == IF a.k = "num" THEN Num(a.v * 60) ELSE NaN
\* a - b on floats (line 305)
FloatSub(a, b) == IF a.k = "num" /\ b.k = "num" THEN Num(a.v - b.v) ELSE NaN

(* ------------------------------- texts ------------------------------- *)
\* A text is the sequence of the pieces between its ':' characters.  A piece
\* is a decimal literal ("num"), the word nan, a word float() rejects
\* ("junk") or a word that starts with '/' ("slash").
Lit(n) == [t |-> "num", v |-> n]
Pieces == {Lit(n) : n \in -1..MaxLit}
             \cup {[t |-> "nan", v |-> 0], [t |-> "junk", v |-> 0], [t |-> "slash", v |-> 0]}
Texts == {<<p>> : p \in Pieces}
           \cup {<<Lit(0), p>> : p \in Pieces \ {[t |-> "slash", v |-> 0]}}
           \cup {<<Lit(0), Lit(0), Lit(0)>>}

\* float(s): [ok, val]; ok = FALSE is ValueError
ToFloat(p) ==
    CASE p.t = "num" -> [ok |-> TRUE, val |-> Num(p.v)]
      [] p.t = "nan" -> [ok |-> TRUE, val |-> NaN]
      [] OTHER -> [ok |-> FALSE, val |-> NaN]

\* parse_time (lines 272-282)
parse_time(time_str) ==
    IF Len(time_str) > 1
    THEN IF Len(time_str) = 2
         THEN LET m == ToFloat(time_str[1])
                  s == ToFloat(time_str[2])
              IN  IF m.ok /\ s.ok
                  THEN [ok |-> TRUE, val |-> FloatAdd(FloatMul60(m.val), s.val)]
                  ELSE [ok |-> FALSE, val |-> NaN]
         ELSE [ok |-> FALSE, val |-> NaN]
    ELSE ToFloat(time_str[1])

\* text.startswith('/') (line 210)
StartsWithSlash(text) == text[1].t = "slash"

(* --------------------------- media messages -------------------------- *)
\* A file name is the sequence of its pieces, each extension a piece.
\* The messages users send: id is message.id, kind is which of
\* message.video / message.document is set.
MediaMsgs == {
    [id |-> 1, kind |-> "video", mime |-> "video/mp4", file_name |-> <<>>,
     file_size |-> MAX_FILE_SIZE_BYTES],
    [id |-> 2, kind |-> "document", mime |-> None, file_name |-> <<"clip", ".mkv">>,
     file_size |-> MAX_FILE_SIZE_BYTES - 1],
    [id |-> 3, kind |-> "document", mime |-> "application/pdf",
     file_name |-> <<"notes", ".txt">>, file_size |-> MAX_FILE_SIZE_BYTES - 1],
    [id |-> 4, kind |-> "video", mime |-> "video/mp4", file_name |-> <<"big", ".mp4">>,
     file_size |-> MAX_FILE_SIZE_BYTES + 1],
    [id |-> 5, kind |-> "document", mime |-> "video/x-matroska",
     file_name |-> <<"huge", ".mkv">>, file_size |-> MAX_FILE_SIZE_BYTES + 1],
    [id |-> 6, kind |-> "document", mime |-> "application/pdf",
     file_name |-> <<"clip", ".mp4", ".txt">>, file_size |-> MAX_FILE_SIZE_BYTES - 1],
    [id |-> 7, kind |-> "document", mime |-> None,
     file_name |-> <<"CLIP", ".MKV">>, file_size |-> MAX_FILE_SIZE_BYTES + 1] }

\* mime_type.startswith('video/') (line 151)
IsVideoMime(mime) == mime \in {"video/mp4", "video/x-matroska"}
\* str.lower() on a piece of a file name
Lower(piece) ==
    CASE piece = "CLIP" -> "clip"
      [] piece = ".MKV" -> ".mkv"
      [] OTHER -> piece
\* any(ext in file_name.lower() for ext in [...]) (line 154): ext is
\* searched anywhere in the name
HasVideoExt(file_name) ==
    \E i \in 1..Len(file_name) : Lower(file_name[i]) \in VIDEO_EXTS
\* lines 148-165: "video" (line 148), "mime" (151), "ext" (154) or "reject"
MediaBranch(m) ==
    CASE m.kind = "video" -> "video"
      [] m.kind = "document" /\ m.mime # None /\ IsVideoMime(m.mime) -> "mime"
      [] m.kind = "document" /\ m.file_name # <<>> /\ HasVideoExt(m.file_name) -> "ext"
      [] OTHER -> "reject"
\* file_name of lines 150, 153, 156
MediaFileName(m) ==
    IF MediaBranch(m) \in {"video", "mime"} /\ m.file_name = <<>>
    THEN <<"video", ".mp4">> ELSE m.file_name
\* as TooLarge, with >= for >
TooLargeOrEqual(m) == m.file_size >= MAX_FILE_SIZE_BYTES

\* line 168
TooLarge(m) == m.file_size > MAX_FILE_SIZE_BYTES

(* ------------------------------- state ------------------------------- *)
VARIABLES
    USER_STATES,    \* line 36: user -> dialogue state
    VIDEO_DATA,     \* line 37: user -> record
    pc,             \* slot -> the await a run is suspended at, or "idle"
    run,            \* slot -> the locals of trim_and_send_video
    fs,             \* temp name -> what exists there ({} = no directory)
    last,           \* the step taken last
    scope,          \* who sends events, what they send, the slots runs use
    transfer        \* a download or upload that reports to progress_callback

vars == <<USER_STATES, VIDEO_DATA, pc, run, fs, last, scope, transfer>>

NoVd == [message_id |-> 0, file_name |-> <<>>, is_document |-> FALSE,
         start_time |-> Unset, end_time |-> Unset]
\* accepted is not a local of the code: it is VIDEO_DATA[user_id] as lines
\* 250-251 left it, kept until the transcoder has run
\* exc is the exception caught, text the phrases of lines 415-430 that
\* str(e) contains, shown the failure message that reached the user, exit
\* how subprocess.run ended, steps the steps the run has started
IdleRun == [user |-> 0, vd |-> NoVd, accepted |-> NoVd, temp_dir |-> 0,
            input_path |-> FALSE, progress_msg |-> FALSE, exc |-> "none",
            text |-> {}, shown |-> "none", msgs |-> 0, exit |-> "none",
            steps |-> <<>>]
NoLast == [op |-> "init", user |-> 0, reply |-> "none", temp_dir |-> 0,
           raised |-> FALSE, msgs |-> 0, shown |-> "none", steps |-> <<>>]

\* del d[k]
Del(d, k) == [x \in DOMAIN d \ {k} |-> d[x]]
\* d[k] = v
Put(d, k, v) == [x \in DOMAIN d \cup {k} |-> IF x = k THEN v ELSE d[x]]

\* the texts that are one number, and the media messages sent as a video
NumberTexts == {t \in Texts : Len(t) = 1 /\ t[1].t = "num"}
VideoMsgs == {m \in MediaMsgs : m.kind = "video"}

\* one user, one run at a time, every text and every media message
OneRun == [users |-> {1}, slots |-> {1}, texts |-> Texts, media |-> MediaMsgs]
\* one user, runs in every slot
TwoRuns == [users |-> {1}, slots |-> Slots, texts |-> NumberTexts, media |-> VideoMsgs]
\* one user, runs in every slot, a video and a document that start a session
SessionMsgs == {m \in MediaMsgs : m.id \in 1..2}
TwoSessions == [users |-> {1}, slots |-> Slots, texts |-> NumberTexts,
                media |-> SessionMsgs]
\* every user, one run at a time
TwoUsers == [users |-> Users, slots |-> {1}, texts |-> NumberTexts, media |-> VideoMsgs]

\* no transfer is reporting
NoTransfer == [total |-> 0, prev |-> 0, current |-> 0, result |-> "none",
               edited |-> FALSE, displayed |-> FALSE]

InitWith(sc, tr) ==
    /\ scope = sc
    /\ transfer = tr
    /\ USER_STATES = [u \in {} |-> "none"]
    /\ VIDEO_DATA = [u \in {} |-> NoVd]
    /\ pc = [s \in Slots |-> "idle"]
    /\ run = [s \in Slots |-> IdleRun]
    /\ fs = [d \in TempNames |-> {}]
    /\ last = NoLast

InitIn(sc) == InitWith(sc, NoTransfer)

Init == InitIn(OneRun)
InitRuns == InitIn(TwoRuns)
InitUsers == InitIn(TwoUsers)
InitSessions == InitIn(TwoSessions)

\* the event loop is inside subprocess.run (line 354) of some run
LoopBlocked == \E s \in Slots : pc[s] = "ffmpeg"

\* what `last` records of an event handler's step
Event(op, u, reply) == [NoLast EXCEPT !.op = op, !.user = u, !.reply = reply]

(* ------------------------- cancel_command ---------------------------- *)
\* as cancel_command, without lines 137-138
cancel_commandStateOnly(u) ==
    /\ ~LoopBlocked
    /\ USER_STATES' = Del(USER_STATES, u)
    /\ last' = Event("cancel", u, "Cancelled")
    /\ UNCHANGED <<VIDEO_DATA, pc, run, fs, scope, transfer>>

\* lines 130-140
cancel_command(u) ==
    /\ ~LoopBlocked
    /\ USER_STATES' = Del(USER_STATES, u)
    /\ VIDEO_DATA' = Del(VIDEO_DATA, u)
    /\ last' = Event("cancel", u, "Cancelled")
    /\ UNCHANGED <<pc, run, fs, scope, transfer>>

(* --------------------------- handle_video ---------------------------- *)
\* lines 176-186: the record a media message stores
NewVideoData(m) ==
    [message_id |-> m.id, file_name |-> MediaFileName(m),
     is_document |-> (m.kind = "document"),
     start_time |-> Unset, end_time |-> Unset]

\* lines 142-201
handle_video(u, m) ==
    /\ ~LoopBlocked
    /\ IF MediaBranch(m) = "reject"
       THEN /\ last' = Event("media", u, "UnsupportedMediaType")
            /\ UNCHANGED <<USER_STATES, VIDEO_DATA>>
       ELSE IF TooLarge(m)
       THEN /\ last' = Event("media", u, "FileTooLarge")
            /\ UNCHANGED <<USER_STATES, VIDEO_DATA>>
       ELSE /\ VIDEO_DATA' = Put(VIDEO_DATA, u, NewVideoData(m))
            /\ USER_STATES' = Put(USER_STATES, u, "waiting_for_start_time")
            /\ last' = Event("media", u, "VideoReceived")
    /\ UNCHANGED <<pc, run, fs, scope, transfer>>

(* ---------------------------- handle_text ---------------------------- *)
FreeSlots == {s \in scope.slots : pc[s] = "idle"}

\* as TextStartTime, without line 222
TextStartTimeStateOnly(u, text) ==
    LET p == parse_time(text) IN
    IF p.ok
    THEN /\ USER_STATES' = [USER_STATES EXCEPT ![u] = "waiting_for_end_time"]
         /\ last' = Event("text", u, "StartTimeSet")
         /\ UNCHANGED <<VIDEO_DATA, pc, run, fs>>
    ELSE /\ last' = Event("text", u, "InvalidTimeFormat")
         /\ UNCHANGED <<USER_STATES, VIDEO_DATA, pc, run, fs>>

\* lines 219-236
TextStartTime(u, text) ==
    LET p == parse_time(text) IN
    IF p.ok
    THEN /\ VIDEO_DATA' = [VIDEO_DATA EXCEPT ![u].start_time = p.val]
         /\ USER_STATES' = [USER_STATES EXCEPT ![u] = "waiting_for_end_time"]
         /\ last' = Event("text", u, "StartTimeSet")
         /\ UNCHANGED <<pc, run, fs>>
    ELSE /\ last' = Event("text", u, "InvalidTimeFormat")
         /\ UNCHANGED <<USER_STATES, VIDEO_DATA, pc, run, fs>>

\* as TextEndTime, with a ValueError sending the dialogue back to the start
\* time
TextEndTimeForgetsStart(u, text) ==
    LET p == parse_time(text)
        start_time == VIDEO_DATA[u].start_time
    IN
    IF ~p.ok
    THEN /\ VIDEO_DATA' = [VIDEO_DATA EXCEPT ![u].start_time = Unset]
         /\ USER_STATES' = [USER_STATES EXCEPT ![u] = "waiting_for_start_time"]
         /\ last' = Event("text", u, "InvalidTimeFormat")
         /\ UNCHANGED <<pc, run, fs>>
    ELSE IF FloatLe(p.val, start_time)
    THEN /\ last' = Event("text", u, "InvalidTimeRange")
         /\ UNCHANGED <<USER_STATES, VIDEO_DATA, pc, run, fs>>
    ELSE /\ FreeSlots # {}
         /\ LET s == CHOOSE x \in FreeSlots : \A y \in FreeSlots : x <= y IN
            /\ VIDEO_DATA' = [VIDEO_DATA EXCEPT ![u].end_time = p.val]
            /\ USER_STATES' = [USER_STATES EXCEPT ![u] = "processing"]
            /\ pc' = [pc EXCEPT ![s] = "ack"]
            /\ run' = [run EXCEPT ![s] = [IdleRun EXCEPT !.user = u,
                                                         !.accepted = VIDEO_DATA'[u]]]
            /\ last' = Event("text", u, "Processing")
            /\ UNCHANGED fs

\* lines 238-270, up to the await of line 254
TextEndTime(u, text) ==
    LET p == parse_time(text)
        start_time == VIDEO_DATA[u].start_time
    IN
    IF ~p.ok
    THEN /\ last' = Event("text", u, "InvalidTimeFormat")
         /\ UNCHANGED <<USER_STATES, VIDEO_DATA, pc, run, fs>>
    ELSE IF FloatLe(p.val, start_time)
    THEN /\ last' = Event("text", u, "InvalidTimeRange")
         /\ UNCHANGED <<USER_STATES, VIDEO_DATA, pc, run, fs>>
    ELSE /\ FreeSlots # {}
         /\ LET s == CHOOSE x \in FreeSlots : \A y \in FreeSlots : x <= y IN
            /\ VIDEO_DATA' = [VIDEO_DATA EXCEPT ![u].end_time = p.val]
            /\ USER_STATES' = [USER_STATES EXCEPT ![u] = "processing"]
            /\ pc' = [pc EXCEPT ![s] = "ack"]
            /\ run' = [run EXCEPT ![s] = [IdleRun EXCEPT !.user = u,
                                                         !.accepted = VIDEO_DATA'[u]]]
            /\ last' = Event("text", u, "Processing")
            /\ UNCHANGED fs

\* lines 203-270
handle_text(u, text) ==
    /\ ~LoopBlocked
    /\ UNCHANGED <<scope, transfer>>
    /\ IF StartsWithSlash(text)
       THEN /\ last' = Event("text", u, "none")
            /\ UNCHANGED <<USER_STATES, VIDEO_DATA, pc, run, fs>>
       ELSE IF u \notin DOMAIN USER_STATES
       THEN /\ last' = Event("text", u, "NoActiveSession")
            /\ UNCHANGED <<USER_STATES, VIDEO_DATA, pc, run, fs>>
       ELSE IF USER_STATES[u] = "waiting_for_start_time"
       THEN TextStartTime(u, text)
       ELSE IF USER_STATES[u] = "waiting_for_end_time"
       THEN TextEndTime(u, text)
       ELSE /\ last' = Event("text", u, "none")
            /\ UNCHANGED <<USER_STATES, VIDEO_DATA, pc, run, fs>>

(* ------------------------ trim_and_send_video ------------------------ *)
\* A Telegram call (reply_text, edit, delete, get_messages, download,
\* send_video) returns or raises; the code guards some of them with
\* try/except (lines 77-80, 451-454), so failure is an outcome it expects.
Outcomes == {"ok", "raise"}

TempFiles == {"input", "input_empty", "output", "output_empty"}

\* as CleanupFs, without the unlink of output_path (lines 462-464)
CleanupFsInputOnly(f, r) ==
    IF r.temp_dir = 0 THEN f
    ELSE LET kept == IF r.input_path THEN f[r.temp_dir] \ {"input", "input_empty"}
                     ELSE f[r.temp_dir]
         IN  [f EXCEPT ![r.temp_dir] = IF kept = {"dir"} THEN {} ELSE kept]

\* lines 458-472: unlink input_path and output_path if they exist, rmdir
\* temp_dir if it is then empty
CleanupFs(f, r) ==
    IF r.temp_dir = 0 THEN f
    ELSE LET kept == IF r.input_path THEN f[r.temp_dir] \ TempFiles ELSE f[r.temp_dir]
         IN  [f EXCEPT ![r.temp_dir] = IF kept = {"dir"} THEN {} ELSE kept]

\* as ResetUser, with the store cleared instead of the one key deleted
ResetAll(d, u) == [x \in {} |-> d[x]]

\* lines 474-478: what the finally block leaves of a store
ResetUser(d, u) == IF u \in DOMAIN d THEN Del(d, u) ELSE d

\* lines 456-478, then the return or the re-raise out of the function;
\* r is the run's locals when the finally block starts
Finally(s, r, raised) ==
    /\ fs' = CleanupFs(fs, r)
    /\ USER_STATES' = ResetUser(USER_STATES, r.user)
    /\ VIDEO_DATA' = ResetUser(VIDEO_DATA, r.user)
    /\ pc' = [pc EXCEPT ![s] = "idle"]
    /\ run' = [run EXCEPT ![s] = IdleRun]
    /\ last' = [NoLast EXCEPT !.op = "run_end", !.user = r.user, !.reply = r.exc,
                              !.temp_dir = r.temp_dir, !.raised = raised,
                              !.msgs = r.msgs, !.shown = r.shown,
                              !.steps = Append(r.steps, "cleanup")]
    /\ UNCHANGED <<scope, transfer>>

\* a step of the run of slot s that ends at another await
Goto(s, r, to) ==
    /\ pc' = [pc EXCEPT ![s] = to]
    /\ run' = [run EXCEPT ![s] = r]
    /\ last' = [NoLast EXCEPT !.op = "run_step", !.user = r.user]
    /\ UNCHANGED <<scope, transfer>>

\* the phrases the except branch looks for in str(e) (lines 415, 424, 430)
MsgPhrases == {"No such file or directory: 'ffmpeg'", "Invalid video format",
               "Permission denied"}

\* the phrases of MsgPhrases in the message of an exception whose message is
\* fixed: lines 365, 369, and the FileNotFoundError of subprocess.run; the
\* messages of lines 335, 367, 375, 379 and of the other exceptions have none
ExcText(e) ==
    CASE e = "InvalidFormat" -> {"Invalid video format"}
      [] e = "PermissionDenied" -> {"Permission denied"}
      [] e = "FfmpegMissing" -> {"No such file or directory: 'ffmpeg'"}
      [] OTHER -> {}

\* an exception e whose message contains text, raised in the try body:
\* subprocess.TimeoutExpired goes to lines 403-409, any other Exception to
\* lines 411-448, both up to the await of the reply.  video_data is not read
\* after this point and is reset here.
RaiseWith(s, r, e, text) ==
    Goto(s, [r EXCEPT !.exc = e, !.text = text, !.vd = NoVd, !.accepted = NoVd],
         IF e = "TimeoutExpired" THEN "reply_timeout" ELSE "reply_error")

Raise(s, r, e) == RaiseWith(s, r, e, ExcText(e))

\* lines 415-446: the message chosen for exception e whose str(e) contains
\* text; the message of the else branch carries str(e)
ErrorMsg(e, text) ==
    IF "No such file or directory: 'ffmpeg'" \in text THEN "FfmpegMissing"
    ELSE IF "Invalid video format" \in text THEN "InvalidFormat"
    ELSE IF "Permission denied" \in text THEN "PermissionDenied"
    ELSE e

\* line 254 returns or raises; then lines 262, 286-311 up to get_messages
Ack(s) ==
    /\ pc[s] = "ack"
    /\ ~LoopBlocked
    /\ LET r == run[s] IN
       \E reply \in Outcomes :
       IF reply = "raise"
       THEN \* not a ValueError: handle_text ends, trim_and_send_video never runs
            /\ pc' = [pc EXCEPT ![s] = "idle"]
            /\ run' = [run EXCEPT ![s] = IdleRun]
            /\ last' = [NoLast EXCEPT !.op = "ack_failed", !.user = r.user]
            /\ UNCHANGED <<USER_STATES, VIDEO_DATA, fs, scope, transfer>>
       ELSE /\ \E ffmpeg_ok \in BOOLEAN :
               IF ~ffmpeg_ok
               THEN Goto(s, r, "reply_noffmpeg")
               ELSE IF \/ r.user \notin DOMAIN VIDEO_DATA
                       \/ VIDEO_DATA[r.user].start_time = Unset
                       \/ VIDEO_DATA[r.user].end_time = Unset
               THEN Raise(s, r, "KeyError")
               ELSE Goto(s, [r EXCEPT !.vd = VIDEO_DATA[r.user]], "get_messages")
            /\ UNCHANGED <<USER_STATES, VIDEO_DATA, fs>>

\* line 294 returns (then `return`, line 300) or raises
ReplyNoFfmpeg(s) ==
    /\ pc[s] = "reply_noffmpeg"
    /\ ~LoopBlocked
    /\ LET r == run[s] IN
       \E reply \in Outcomes :
       IF reply = "ok"
       THEN Finally(s, [r EXCEPT !.msgs = @ + 1, !.exc = "NoFfmpeg",
                                 !.shown = "NoFfmpeg"], FALSE)
       ELSE /\ Raise(s, r, "RPCError")
            /\ UNCHANGED <<USER_STATES, VIDEO_DATA, fs>>

\* tempfile.mkdtemp (line 314): a directory that did not exist
mkdtemp(f) == {d \in TempNames : f[d] = {} /\ \A x \in TempNames : f[x] = {} => d <= x}

\* line 308 returns or raises; then lines 313-325
GetMessages(s) ==
    /\ pc[s] = "get_messages"
    /\ ~LoopBlocked
    /\ LET r == run[s] IN
       \E call \in Outcomes :
       IF call = "ok"
       THEN \E d \in mkdtemp(fs) :
              /\ fs' = [fs EXCEPT ![d] = {"dir"}]
              /\ Goto(s, [r EXCEPT !.temp_dir = d, !.input_path = TRUE,
                                   !.steps = Append(@, "allocate")], "reply_progress")
       ELSE /\ Raise(s, r, "RPCError")
            /\ UNCHANGED fs
    /\ UNCHANGED <<USER_STATES, VIDEO_DATA>>

\* line 325 returns or raises; then line 327
ReplyProgress(s) ==
    /\ pc[s] = "reply_progress"
    /\ ~LoopBlocked
    /\ LET r == run[s] IN
       \E reply \in Outcomes :
       IF reply = "ok"
       THEN Goto(s, [r EXCEPT !.progress_msg = TRUE, !.steps = Append(@, "fetch")],
                 "download")
       ELSE Raise(s, r, "RPCError")
    /\ UNCHANGED <<USER_STATES, VIDEO_DATA, fs>>

\* line 327 returns or raises; then lines 333-337
Download(s) ==
    /\ pc[s] = "download"
    /\ ~LoopBlocked
    /\ LET r == run[s] IN
       \E got \in {"file", "empty", "nothing", "raise"} :
       CASE got = "file" ->
              /\ fs' = [fs EXCEPT ![r.temp_dir] = @ \cup {"input"}]
              /\ Goto(s, r, "edit_trim")
         [] got = "empty" ->
              /\ fs' = [fs EXCEPT ![r.temp_dir] = @ \cup {"input_empty"}]
              /\ Raise(s, r, "EmptyDownload")
         [] got = "nothing" ->
              /\ UNCHANGED fs
              /\ Raise(s, r, "EmptyDownload")
         [] OTHER ->
              /\ UNCHANGED fs
              /\ Raise(s, r, "RPCError")
    /\ UNCHANGED <<USER_STATES, VIDEO_DATA>>

\* line 337 returns or raises; then lines 339-354: the transcoder is started
EditTrim(s) ==
    /\ pc[s] = "edit_trim"
    /\ ~LoopBlocked
    /\ LET r == run[s] IN
       \E edit \in Outcomes :
       IF edit = "ok" THEN Goto(s, [r EXCEPT !.steps = Append(@, "trim")], "ffmpeg")
       ELSE Raise(s, r, "RPCError")
    /\ UNCHANGED <<USER_STATES, VIDEO_DATA, fs>>

\* result.stderr is the set of the phrases of lines 364-368 and of lines
\* 424, 430 it contains
Stderrs == SUBSET {"Invalid data found", "No such file", "Permission denied",
                   "Invalid video format"}

\* lines 364-371: the exception a non-zero exit raises, from result.stderr
ClassifyStderr(stderr) ==
    IF "Invalid data found" \in stderr THEN "InvalidFormat"
    ELSE IF "No such file" \in stderr THEN "InputNotFound"
    ELSE IF "Permission denied" \in stderr THEN "PermissionDenied"
    ELSE "FFmpegFailed"

\* the phrases of MsgPhrases in the message of the exception lines 364-371
\* raise: line 371 puts result.stderr into the message
ClassifiedText(stderr) ==
    IF ClassifyStderr(stderr) = "FFmpegFailed" THEN stderr \cap MsgPhrases
    ELSE ExcText(ClassifyStderr(stderr))

\* what the transcoder can leave at output_path: nothing, a file with
\* content, an empty file
Outputs == {{}, {"output"}, {"output_empty"}}

\* as Ffmpeg, without the check of lines 377-379
FfmpegAnyOutput(s) ==
    /\ pc[s] = "ffmpeg"
    /\ \E end \in {"exit0", "exit1", "timeout", "missing"}, out \in Outputs,
          stderr \in Stderrs :
       LET r == [run[s] EXCEPT !.exit = end] IN
       /\ fs' = [fs EXCEPT ![r.temp_dir] = @ \cup out]
       /\ CASE end = "timeout" ->
                 /\ out # {"output_empty"} /\ stderr = {}
                 /\ Raise(s, r, "TimeoutExpired")
            [] end = "missing" ->
                 /\ out = {} /\ stderr = {}
                 /\ Raise(s, r, "FfmpegMissing")
            [] end = "exit1" ->
                 /\ out # {"output_empty"}
                 /\ RaiseWith(s, r, ClassifyStderr(stderr), ClassifiedText(stderr))
            [] OTHER ->
                 /\ stderr = {}
                 /\ IF out = {} THEN Raise(s, r, "NoOutput")
                    ELSE Goto(s, [r EXCEPT !.accepted = NoVd], "edit_upload")
    /\ UNCHANGED <<USER_STATES, VIDEO_DATA>>

\* subprocess.run (line 354) returns or raises; then lines 361-383
Ffmpeg(s) ==
    /\ pc[s] = "ffmpeg"
    /\ \E end \in {"exit0", "exit1", "timeout", "missing"}, out \in Outputs,
          stderr \in Stderrs :
       LET r == [run[s] EXCEPT !.exit = end] IN
       /\ fs' = [fs EXCEPT ![r.temp_dir] = @ \cup out]
       /\ CASE end = "timeout" ->
                 /\ out # {"output_empty"} /\ stderr = {}
                 /\ Raise(s, r, "TimeoutExpired")
            [] end = "missing" ->
                 /\ out = {} /\ stderr = {}
                 /\ Raise(s, r, "FfmpegMissing")
            [] end = "exit1" ->
                 /\ out # {"output_empty"}
                 /\ RaiseWith(s, r, ClassifyStderr(stderr), ClassifiedText(stderr))
            [] OTHER ->
                 /\ stderr = {}
                 /\ IF out = {} THEN Raise(s, r, "NoOutput")
                    ELSE IF out = {"output_empty"} THEN Raise(s, r, "EmptyOutput")
                    ELSE Goto(s, [r EXCEPT !.accepted = NoVd], "edit_upload")
    /\ UNCHANGED <<USER_STATES, VIDEO_DATA>>

\* line 383 returns or raises; then line 386
EditUpload(s) ==
    /\ pc[s] = "edit_upload"
    /\ ~LoopBlocked
    /\ LET r == run[s] IN
       \E edit \in Outcomes :
       IF edit = "ok" THEN Goto(s, [r EXCEPT !.steps = Append(@, "publish")], "send_video")
       ELSE Raise(s, r, "RPCError")
    /\ UNCHANGED <<USER_STATES, VIDEO_DATA, fs>>

\* line 386 returns or raises; then line 401 (video_data is not read after
\* the call and is reset here)
SendVideo(s) ==
    /\ pc[s] = "send_video"
    /\ ~LoopBlocked
    /\ LET r == run[s] IN
       \E send \in Outcomes :
       IF send = "ok" THEN Goto(s, [r EXCEPT !.vd = NoVd], "delete_progress")
       ELSE Raise(s, r, "PublishFailed")
    /\ UNCHANGED <<USER_STATES, VIDEO_DATA, fs>>

\* line 401 returns (the try body ends) or raises
DeleteProgress(s) ==
    /\ pc[s] = "delete_progress"
    /\ ~LoopBlocked
    /\ LET r == run[s] IN
       \E del \in Outcomes :
       IF del = "ok"
       THEN Finally(s, r, FALSE)
       ELSE /\ Raise(s, r, "RPCError")
            /\ UNCHANGED <<USER_STATES, VIDEO_DATA, fs>>

\* line 405 returns or raises: an exception raised in an except branch is
\* not caught by the other except branch of the same try
ReplyTimeout(s) ==
    /\ pc[s] = "reply_timeout"
    /\ ~LoopBlocked
    /\ LET r == run[s] IN
       \E reply \in Outcomes :
       IF reply = "ok"
       THEN Finally(s, [r EXCEPT !.msgs = @ + 1, !.shown = "TimeoutExpired"], FALSE)
       ELSE Finally(s, r, TRUE)

\* line 448 returns or raises; then lines 450-452
ReplyError(s) ==
    /\ pc[s] = "reply_error"
    /\ ~LoopBlocked
    /\ LET r == run[s] IN
       \E reply \in Outcomes :
       IF reply = "raise"
       THEN Finally(s, r, TRUE)
       ELSE IF r.progress_msg
       THEN /\ Goto(s, [r EXCEPT !.msgs = @ + 1, !.shown = ErrorMsg(r.exc, r.text),
                                 !.text = {}], "delete_in_except")
            /\ UNCHANGED <<USER_STATES, VIDEO_DATA, fs>>
       ELSE Finally(s, [r EXCEPT !.msgs = @ + 1, !.shown = ErrorMsg(r.exc, r.text)],
                    FALSE)

\* line 452 returns or raises (lines 453-454 swallow it)
DeleteInExcept(s) ==
    /\ pc[s] = "delete_in_except"
    /\ ~LoopBlocked
    /\ Finally(s, run[s], FALSE)

(* -------------------------- progress_callback ------------------------ *)
\* lines 73-80, in exact arithmetic: percent % 10 < 1 is
\* (100 * current) % (10 * total) < total.  edit is what message.edit does.
\* raised is the exception that leaves the function, edited whether line 78
\* was reached, displayed whether the edit was made (lines 79-80 swallow
\* its failure).
progress_callback(current, total, edit) ==
    IF total = 0
    THEN [raised |-> "ZeroDivisionError", edited |-> FALSE, displayed |-> FALSE]
    ELSE IF (100 * current) % (10 * total) < total
    THEN [raised |-> "none", edited |-> TRUE, displayed |-> (edit = "ok")]
    ELSE [raised |-> "none", edited |-> FALSE, displayed |-> FALSE]

\* download (line 327) and send_video (line 386) call progress_callback
\* with the bytes transferred so far and the size of the file (0 when the
\* size is not known), the bytes growing from report to report; the reports
\* end when an exception has left the callback
Report(current, edit) ==
    /\ transfer.result # "ZeroDivisionError"
    /\ current > transfer.current
    /\ transfer.total = 0 \/ current <= transfer.total
    /\ LET cb == progress_callback(current, transfer.total, edit) IN
       transfer' = [total |-> transfer.total, prev |-> transfer.current,
                    current |-> current,
                    result |-> IF cb.raised = "none" THEN "returned" ELSE cb.raised,
                    edited |-> cb.edited, displayed |-> cb.displayed]
    /\ UNCHANGED <<USER_STATES, VIDEO_DATA, pc, run, fs, last, scope>>

(* --------------------------- specification --------------------------- *)
Next ==
    \/ \E u \in scope.users : cancel_command(u)
    \/ \E u \in scope.users, m \in scope.media : handle_video(u, m)
    \/ \E u \in scope.users, text \in scope.texts : handle_text(u, text)
    \/ \E s \in Slots : Ack(s)
    \/ \E s \in Slots : ReplyNoFfmpeg(s)
    \/ \E s \in Slots : GetMessages(s)
    \/ \E s \in Slots : ReplyProgress(s)
    \/ \E s \in Slots : Download(s)
    \/ \E s \in Slots : EditTrim(s)
    \/ \E s \in Slots : Ffmpeg(s)
    \/ \E s \in Slots : EditUpload(s)
    \/ \E s \in Slots : SendVideo(s)
    \/ \E s \in Slots : DeleteProgress(s)
    \/ \E s \in Slots : ReplyTimeout(s)
    \/ \E s \in Slots : ReplyError(s)
    \/ \E s \in Slots : DeleteInExcept(s)

\* the dialogue and one run, on every input
Spec == Init /\ [][Next]_vars

\* a step of the handler task that runs in slot s
RunStep(s) ==
    \/ Ack(s) \/ ReplyNoFfmpeg(s) \/ GetMessages(s) \/ ReplyProgress(s)
    \/ Download(s) \/ EditTrim(s) \/ Ffmpeg(s) \/ EditUpload(s) \/ SendVideo(s)
    \/ DeleteProgress(s) \/ ReplyTimeout(s) \/ ReplyError(s) \/ DeleteInExcept(s)

\* as Spec, where every call a handler task awaits returns or raises, and
\* subprocess.run returns or hits its timeout of 300 s (line 358); users
\* send events or not, as they like
SpecLive == Init /\ [][Next]_vars /\ \A s \in Slots : WF_vars(RunStep(s))
\* runs of one user in flight together
SpecRuns == InitRuns /\ [][Next]_vars
\* two users
SpecUsers == InitUsers /\ [][Next]_vars
\* runs of one user in flight together, started by different media messages
SpecSessions == InitSessions /\ [][Next]_vars
\* a transfer of a file of any size up to MaxTotal starts
InitProgress ==
    \E total \in 0..MaxTotal : InitWith(OneRun, [NoTransfer EXCEPT !.total = total])

NextProgress == \E current \in 1..MaxTotal, edit \in Outcomes : Report(current, edit)

\* the reports of one transfer
SpecProgress == InitProgress /\ [][NextProgress]_vars
\* runs in flight together, or two users
SpecShared == (InitRuns \/ InitUsers) /\ [][Next]_vars

(* ------------------------------ claims ------------------------------- *)
\* what the session store holds for user u
HasEntry(u) == u \in DOMAIN USER_STATES \/ u \in DOMAIN VIDEO_DATA
StateOf(u) == IF u \in DOMAIN USER_STATES THEN USER_STATES[u] ELSE "absent"
DataOf(u) == IF u \in DOMAIN VIDEO_DATA THEN VIDEO_DATA[u] ELSE NoVd
InFlight(s) == pc[s] # "idle"

C2_EndAfterStart ==
    /\ [](\A u \in DOMAIN USER_STATES :
            USER_STATES[u] = "processing" =>
                /\ VIDEO_DATA[u].start_time.k = "num"
                /\ VIDEO_DATA[u].end_time.k = "num"
                /\ VIDEO_DATA[u].end_time.v > VIDEO_DATA[u].start_time.v)
    /\ [][\A u \in scope.users, text \in scope.texts :
            (/\ StateOf(u) = "waiting_for_end_time"
             /\ handle_text(u, text)
             /\ parse_time(text).ok
             /\ parse_time(text).val.k = "num"
             /\ VIDEO_DATA[u].start_time.k = "num"
             /\ parse_time(text).val.v <= VIDEO_DATA[u].start_time.v)
            => /\ last'.reply = "InvalidTimeRange"
               /\ UNCHANGED <<USER_STATES, VIDEO_DATA>>]_vars

\* C3: no two runs of the same user are in flight at the same time.
C3_OneRunPerUser ==
    \A s1, s2 \in Slots :
        (s1 # s2 /\ InFlight(s1) /\ InFlight(s2)) => run[s1].user # run[s2].user

\* C4: a media event or a text event of a user whose session is in state
\* processing leaves that user's state and record unchanged.
C4_ProcessingFrame ==
    [][\A u \in scope.users :
          (/\ StateOf(u) = "processing"
           /\ last'.op \in {"media", "text"}
           /\ last'.user = u)
          => (StateOf(u)' = StateOf(u) /\ DataOf(u)' = DataOf(u))]_vars

\* C5: while the transcoder of one user's run is running, some event of
\* every other user can be handled.
C5_TranscodeDoesNotBlock ==
    \A s \in Slots :
        pc[s] = "ffmpeg" =>
            \A u \in scope.users \ {run[s].user} :
                ENABLED (\/ cancel_command(u)
                         \/ \E m \in scope.media : handle_video(u, m)
                         \/ \E text \in scope.texts : handle_text(u, text))

\* C6: a step changes the state or the record of a user only if it is a
\* step of that user's own event or run, and two runs in flight never have
\* the same temporary directory.
C6_UsersAndRunsApart ==
    [][/\ \A u \in scope.users :
             (StateOf(u)' # StateOf(u) \/ DataOf(u)' # DataOf(u)) => last'.user = u
       /\ \A s1, s2 \in Slots :
             (s1 # s2 /\ run[s1].temp_dir' # 0 /\ run[s2].temp_dir' # 0)
             => run[s1].temp_dir' # run[s2].temp_dir']_vars

\* two runs are in flight, each with its temporary directory, and the step
\* taken last created the second directory
C6_Witness ==
    /\ last.op = "run_step"
    /\ \E s1, s2 \in Slots :
          /\ s1 # s2
          /\ pc[s1] = "reply_progress"
          /\ run[s2].temp_dir # 0
          /\ fs[run[s1].temp_dir] = {"dir"}
          /\ fs[run[s2].temp_dir] # {}

\* C7: a media event larger than MAX_FILE_SIZE_BYTES changes neither store,
\* in any state of the user's session; one of exactly that size, of a kind
\* that qualifies, starts a session.
C7_OversizedMedia ==
    [][\A u \in scope.users, m \in scope.media :
          handle_video(u, m) =>
            /\ m.file_size > MAX_FILE_SIZE_MB * 1024 * 1024
                 => UNCHANGED <<USER_STATES, VIDEO_DATA>>
            /\ (m.file_size = MAX_FILE_SIZE_MB * 1024 * 1024 /\ m.kind = "video")
                 => /\ StateOf(u)' = "waiting_for_start_time"
                    /\ DataOf(u)'.message_id = m.id]_vars

\* an oversized media message was rejected while the user's session was in
\* state processing
C7_Witness ==
    /\ last.op = "media"
    /\ last.reply = "FileTooLarge"
    /\ StateOf(last.user) = "processing"

\* C8: after a cancel command the user has no entry in USER_STATES or
\* VIDEO_DATA, and a cancel of a user with no entry changes neither store.
C8_CancelClears ==
    [][\A u \in scope.users :
          (last'.op = "cancel" /\ last'.user = u) =>
            /\ u \notin DOMAIN USER_STATES'
            /\ u \notin DOMAIN VIDEO_DATA'
            /\ ~HasEntry(u) => UNCHANGED <<USER_STATES, VIDEO_DATA>>]_vars

\* a cancel command removed the session of a user whose run is in flight
C8_Witness ==
    /\ last.op = "cancel"
    /\ ~HasEntry(last.user)
    /\ \E s \in Slots : InFlight(s) /\ run[s].user = last.user

\* C9: no session holds a negative start_time or end_time.
C9_NoNegativeTime ==
    \A u \in DOMAIN VIDEO_DATA :
        /\ ~(VIDEO_DATA[u].start_time.k = "num" /\ VIDEO_DATA[u].start_time.v < 0)
        /\ ~(VIDEO_DATA[u].end_time.k = "num" /\ VIDEO_DATA[u].end_time.v < 0)

\* C10: a run in which something failed returns without raising, after
\* exactly one failure message reached the user.
C10_FailureIsReportedOnce ==
    (last.op = "run_end" /\ last.reply # "none") =>
        (~last.raised /\ last.msgs = 1)

\* lines 302-311, 340-349: what the transcoder is invoked with, from the
\* record vd: the message fetched, -ss and -t
TrimRequest(vd) ==
    [sourceRef |-> vd.message_id, startTime |-> vd.start_time,
     duration |-> FloatSub(vd.end_time, vd.start_time)]

\* C11: a run whose transcoder is running invoked it with the message, the
\* start time and the duration of the session whose end-time text started
\* the run.
C11_TrimRequestFixed ==
    \A s \in Slots :
        pc[s] = "ffmpeg" => TrimRequest(run[s].vd) = TrimRequest(run[s].accepted)

\* C12: a text that is not a command and that parse_time rejects, in
\* waiting_for_start_time or waiting_for_end_time, is answered with
\* InvalidTimeFormat; a text of a user with no session is answered with
\* NoActiveSession; and a text answered with either leaves USER_STATES and
\* VIDEO_DATA unchanged.
C12_DialogueErrorKeepsStore ==
    [][\A u \in scope.users, text \in scope.texts :
          (handle_text(u, text) /\ ~StartsWithSlash(text)) =>
            /\ (/\ StateOf(u) \in {"waiting_for_start_time", "waiting_for_end_time"}
                /\ ~parse_time(text).ok)
                 => last'.reply = "InvalidTimeFormat"
            /\ ~HasEntry(u) => last'.reply = "NoActiveSession"
            /\ last'.reply \in {"InvalidTimeFormat", "NoActiveSession"}
                 => UNCHANGED <<USER_STATES, VIDEO_DATA>>]_vars

\* a text was rejected by parse_time while its user was in
\* waiting_for_end_time, with the start time stored
C12_Witness ==
    /\ last.op = "text"
    /\ last.reply = "InvalidTimeFormat"
    /\ StateOf(last.user) = "waiting_for_end_time"
    /\ DataOf(last.user).start_time # Unset

\* the exceptions lines 364-371 raise
NonZeroExit == {ClassifyStderr(stderr) : stderr \in Stderrs}

\* C13: the exception a non-zero exit raises is chosen from result.stderr in
\* the order "Invalid data found", "No such file", "Permission denied", else
\* the generic one; and when a run that raised it has ended, exactly one
\* failure message reached the user, it is the message of that exception,
\* the user has no entry in the stores and the temporary directory is gone.
C13_NonZeroExitReported ==
    /\ \A stderr \in Stderrs :
          ClassifyStderr(stderr) =
             (IF "Invalid data found" \in stderr THEN "InvalidFormat"
              ELSE IF "No such file" \in stderr THEN "InputNotFound"
              ELSE IF "Permission denied" \in stderr THEN "PermissionDenied"
              ELSE "FFmpegFailed")
    /\ (last.op = "run_end" /\ last.reply \in NonZeroExit) =>
          /\ last.msgs = 1
          /\ last.shown = last.reply
          /\ ~HasEntry(last.user)
          /\ fs[last.temp_dir] = {}

\* os.path.splitext(file_name)[1]: the extension of a file name
FileExt(file_name) ==
    IF Len(file_name) > 1 THEN file_name[Len(file_name)] ELSE ""

\* C14: a document is answered with UnsupportedMediaType exactly when its
\* MIME type is absent or not a video type and its extension is not a video
\* extension, and then neither store changes.
C14_DocumentQualifies ==
    [][\A u \in scope.users, m \in scope.media :
          (handle_video(u, m) /\ m.kind = "document") =>
            /\ (last'.reply # "UnsupportedMediaType")
                 <=> \/ (m.mime # None /\ IsVideoMime(m.mime))
                     \/ Lower(FileExt(m.file_name)) \in VIDEO_EXTS
            /\ last'.reply = "UnsupportedMediaType"
                 => UNCHANGED <<USER_STATES, VIDEO_DATA>>]_vars

\* C15: whatever the bytes transferred, the size of the file (0 included)
\* and the outcome of the edit, no exception leaves progress_callback.
C15_CallbackNeverRaises ==
    transfer.result \in {"none", "returned"}

\* the report that took the bytes from prev to current crossed k * 10% of total
Crosses(k, prev, current, total) ==
    100 * prev < 10 * k * total /\ 10 * k * total <= 100 * current

\* C16: a report that crosses one of the boundaries 10%, 20%, ..., 100% of
\* a file of known size edits the progress message.
C16_EveryBoundaryUpdates ==
    (transfer.result = "returned"
       /\ \E k \in 1..10 : Crosses(k, transfer.prev, transfer.current, transfer.total))
    => transfer.edited

\* the steps of a run before its cleanup, in the order of the code
RunSteps == <<"allocate", "fetch", "trim", "publish">>

\* C17: the steps a run has started are the first steps of allocate, fetch,
\* trim, publish, each once; a run that is publishing has a fetched file
\* with content, a transcoder that exited with code 0 and an output file
\* with content; and a run that has ended did its cleanup as its last step.
C17_StepOrder ==
    /\ \A s \in Slots :
          /\ run[s].steps = SubSeq(RunSteps, 1, Len(run[s].steps))
          /\ "publish" \in {run[s].steps[i] : i \in 1..Len(run[s].steps)}
                => /\ {"input", "output"} \subseteq fs[run[s].temp_dir]
                   /\ {"input_empty", "output_empty"} \cap fs[run[s].temp_dir] = {}
                   /\ run[s].exit = "exit0"
    /\ last.op = "run_end"
          => \E n \in 0..Len(RunSteps) :
                last.steps = Append(SubSeq(RunSteps, 1, n), "cleanup")

\* a run has ended that allocated, fetched, trimmed, published and cleaned up
C17_Witness ==
    /\ last.op = "run_end"
    /\ last.reply = "none"
    /\ last.steps = Append(RunSteps, "cleanup")

\* C18: a user whose state is processing eventually has that state no more.
C18_ProcessingEnds ==
    \A u \in Users : (StateOf(u) = "processing") ~> (StateOf(u) # "processing")

\* the states in which the dialogue waits for a time
Awaiting == {"waiting_for_start_time", "waiting_for_end_time"}

\* C19: the end of a run leaves the state and the record of a user who is
\* in waiting_for_start_time or waiting_for_end_time unchanged, and such a
\* user loses the entry only by that user's own cancel command.
C19_CleanupOwnSessionOnly ==
    [][\A u \in scope.users :
          StateOf(u) \in Awaiting =>
            /\ last'.op = "run_end"
                 => (StateOf(u)' = StateOf(u) /\ DataOf(u)' = DataOf(u))
            /\ StateOf(u)' = "absent"
                 => (last'.op = "cancel" /\ last'.user = u)]_vars

\* C20: USER_STATES and VIDEO_DATA have the same keys; a record has no
\* start_time and no end_time in waiting_for_start_time, a start_time in
\* waiting_for_end_time, and both in processing.
C20_StoresAgree ==
    /\ DOMAIN USER_STATES = DOMAIN VIDEO_DATA
    /\ \A u \in DOMAIN USER_STATES :
          /\ USER_STATES[u] \in Awaiting \cup {"processing"}
          /\ USER_STATES[u] = "waiting_for_start_time"
                => (VIDEO_DATA[u].start_time = Unset /\ VIDEO_DATA[u].end_time = Unset)
          /\ USER_STATES[u] = "waiting_for_end_time"
                => VIDEO_DATA[u].start_time # Unset
          /\ USER_STATES[u] = "processing"
                => (VIDEO_DATA[u].start_time # Unset /\ VIDEO_DATA[u].end_time # Unset)

\* a media message has replaced the session of a user whose run, started
\* with both times stored, is in flight
C20_Witness ==
    /\ last.op = "media"
    /\ last.reply = "VideoReceived"
    /\ StateOf(last.user) = "waiting_for_start_time"
    /\ \E s \in Slots :
          /\ run[s].user = last.user
          /\ run[s].accepted.start_time # Unset
          /\ run[s].accepted.end_time # Unset

====
